---- MODULE Spec2Model ----
(***************************************************************************)
(* Process lifecycle of the all-in-one service: func main() of             *)
(*   variant "A"  src/cmd/all-in-one/main.go  (no tracing span)            *)
(*   variant "B"  src/unnamed/part_000        (tracing span "main")        *)
(* The main execution unit runs startup, then blocks in                    *)
(* http.ListenAndServe; one background unit runs grpcServer.Serve.         *)
(* logger.Fatal writes the entry and calls os.Exit(1): deferred calls do   *)
(* not run.  panic unwinds main and runs the deferred calls, last          *)
(* registered first.  Returning from main runs them too and ends the       *)
(* process, the background unit with it.                                   *)
(* Spec runs one variant; SpecPair runs main.go and then part_000, keeping *)
(* on record what the first run did, to compare the two.                   *)
(***************************************************************************)
EXTENDS Naturals, Sequences, FiniteSets

VARIABLES
    variant,    \* which main() is running: "A" or "B"
    pc,         \* position of the main execution unit
    bgpc,       \* position of the background execution unit (go func)
    err,        \* the variable err of main's outer scope, shared with go func
    closer,     \* the value telemetry.Setup returned as teardown function
    span,       \* the "main" span: "none", "open", "ended"
    spanStatus, \* status of the span: "Unset" or "Error"
    lis,        \* the binary-transport listener: "none" or "bound"
    defers,     \* stack of deferred calls of main, last registered last
    unwinding,  \* why main is running its deferred calls: "no", "return", "panic"
    exit,       \* "running", "fatal" (os.Exit(1)), "returned", "panicked"
    res,        \* outcome of each collaborator call made so far
    trace,      \* lifecycle events in the order they happened
    first       \* what an earlier run of the other variant did, for comparison

vars == <<variant, pc, bgpc, err, closer, span, spanStatus, lis, defers,
          unwinding, exit, res, trace, first>>

Variants == {"A", "B"}

\* what a collaborator call can return: success or an error
Outcomes == {"ok", "failed"}

\* ---- helpers on event sequences ----------------------------------------

Has(tr, e) == \E i \in DOMAIN tr : tr[i] = e

Count(tr, e) == Cardinality({i \in DOMAIN tr : tr[i] = e})

\* every a in tr comes before every b in tr
Before(tr, a, b) ==
    \A i, j \in DOMAIN tr : (tr[i] = a /\ tr[j] = b) => i < j

\* entries written by logger.Fatal, one name per call site
FatalLogs == {"log_fatal_config", "log_fatal_listen", "log_fatal_payment",
              "log_fatal_shutdown", "log_fatal_server", "log_fatal_serve"}

HasFatalLog(tr) == \E i \in DOMAIN tr : tr[i] \in FatalLogs

\* cleanup actions: the deferred calls
Cleanups == {"shutdown_payment", "teardown"}

\* ---- telemetry primitives ----------------------------------------------

\* span.RecordError(err); span.SetStatus(codes.Error, ...): only variant B
\* has a span; on a span that has ended both calls are dropped.
SpanError(tr) ==
    IF variant = "B"
    THEN Append(tr, IF span = "open" THEN "span_error" ELSE "span_error_after_end")
    ELSE tr

SpanStatusAfterError ==
    IF variant = "B" /\ span = "open" THEN "Error" ELSE spanStatus

\* no collaborator has been called yet
NoResults ==
    [setup |-> "none", load |-> "none", listen |-> "none",
     payment |-> "none", httpListen |-> "none", http |-> "none",
     grpc |-> "none", shutdown |-> "none"]

\* no earlier run is on record
NoFirstRun ==
    [done |-> FALSE, life |-> <<>>, exit |-> "running", res |-> NoResults]

Init ==
    /\ variant \in Variants
    /\ pc = "setup"
    /\ bgpc = "none"
    /\ err = "nil"
    /\ closer = "unset"
    /\ span = "none"
    /\ spanStatus = "Unset"
    /\ lis = "none"
    /\ defers = <<>>
    /\ unwinding = "no"
    /\ exit = "running"
    /\ res = NoResults
    /\ trace = <<>>
    /\ first = NoFirstRun

\* closer, err := telemetry.Setup(...); if err != nil { fmt.Printf(...) };
\* defer closer(context.Background())
\* Setup (internal/telemetry) hands back a teardown function together with
\* its error, as its contract setup(path) -> (teardown, error) says.
TelemetrySetup ==
    /\ exit = "running" /\ pc = "setup"
    /\ \E r \in Outcomes :
          /\ res' = [res EXCEPT !.setup = r]
          /\ err' = IF r = "ok" THEN "nil" ELSE "setupErr"
          /\ trace' = trace \o <<"setup">>
                            \o (IF r = "failed" THEN <<"console">> ELSE <<>>)
                            \o <<"defer_closer">>
    /\ closer' = "fn"
    /\ defers' = Append(defers, "closer")
    /\ pc' = IF variant = "B" THEN "span" ELSE "load"
    /\ UNCHANGED <<first, variant, bgpc, span, spanStatus, lis, unwinding, exit>>

\* _, span := otel.Tracer("all-in-one").Start(context.Background(), "main")
StartSpan ==
    /\ exit = "running" /\ pc = "span" /\ variant = "B"
    /\ span' = "open"
    /\ trace' = Append(trace, "span_start")
    /\ pc' = "load"
    /\ UNCHANGED <<first, variant, bgpc, err, closer, spanStatus, lis, defers,
                   unwinding, exit, res>>

\* LoadConfig with the configuration error tested in the tracing variant
\* only: a repair made to one of the two files
LoadConfigCheckedInB ==
    /\ exit = "running" /\ pc = "load"
    /\ \E r \in Outcomes :
          /\ res' = [res EXCEPT !.load = r]
          /\ IF variant = "B" /\ (err # "nil" \/ r = "failed")
             THEN /\ trace' = SpanError(Append(trace, "load")) \o <<"log_fatal_config">>
                  /\ spanStatus' = SpanStatusAfterError
                  /\ exit' = "fatal"
                  /\ pc' = pc
             ELSE /\ trace' = Append(trace, "load")
                  /\ pc' = "listen"
                  /\ UNCHANGED <<spanStatus, exit>>
    /\ UNCHANGED <<first, variant, bgpc, err, closer, span, lis, defers, unwinding>>

\* c, _ := config.LoadConfig(*configFlag): the error LoadConfig returns is
\* discarded.  Variant B then tests err, which still holds the error of
\* telemetry.Setup; variant A has the test commented out.
LoadConfig ==
    /\ exit = "running" /\ pc = "load"
    /\ \E r \in Outcomes :
          /\ res' = [res EXCEPT !.load = r]
          /\ IF variant = "B" /\ err # "nil"
             THEN /\ trace' = SpanError(Append(trace, "load")) \o <<"log_fatal_config">>
                  /\ spanStatus' = SpanStatusAfterError
                  /\ exit' = "fatal"
                  /\ pc' = pc
             ELSE /\ trace' = Append(trace, "load")
                  /\ pc' = "listen"
                  /\ UNCHANGED <<spanStatus, exit>>
    /\ UNCHANGED <<first, variant, bgpc, err, closer, span, lis, defers, unwinding>>

\* ListenFailed with logger.Fatal weakened to a log entry that does not end
\* the process: startup goes on to the modules
ListenFailedContinue(tr) ==
    /\ trace' = SpanError(tr) \o <<"log_fatal_listen">>
    /\ spanStatus' = SpanStatusAfterError
    /\ exit' = exit
    /\ pc' = "user"

\* the body of `if err != nil` after net.Listen: (B: span.RecordError,
\* span.SetStatus) logger.Fatal
ListenFailed(tr) ==
    /\ trace' = SpanError(tr) \o <<"log_fatal_listen">>
    /\ spanStatus' = SpanStatusAfterError
    /\ exit' = "fatal"
    /\ pc' = pc

\* mux := http.NewServeMux(); lis, err := net.Listen("tcp", ...);
\* if err != nil {...}; grpcServer := grpc.NewServer(opts...)
Listen ==
    /\ exit = "running" /\ pc = "listen"
    /\ \E r \in Outcomes :
          /\ res' = [res EXCEPT !.listen = r]
          /\ err' = IF r = "ok" THEN "nil" ELSE "listenErr"
          /\ lis' = IF r = "ok" THEN "bound" ELSE "none"
          /\ IF r = "failed"
             THEN ListenFailed(trace \o <<"new_mux", "bind">>)
             ELSE /\ trace' = trace \o <<"new_mux", "bind", "new_grpc_server">>
                  /\ pc' = "user"
                  /\ UNCHANGED <<spanStatus, exit>>
    /\ UNCHANGED <<first, variant, bgpc, closer, span, defers, unwinding>>

\* a := app.NewUser(&c.Users); a.RegisterRoutes(mux)
RegisterUser ==
    /\ exit = "running" /\ pc = "user"
    /\ trace' = trace \o <<"new_user", "reg_user">>
    /\ pc' = "plan"
    /\ UNCHANGED <<first, variant, bgpc, err, closer, span, spanStatus, lis, defers,
                   unwinding, exit, res>>

\* a := app.NewPlan(&c.Plans); a.RegisterRoutes(mux, grpcServer)
RegisterPlan ==
    /\ exit = "running" /\ pc = "plan"
    /\ trace' = trace \o <<"new_plan", "reg_plan">>
    /\ pc' = "payment"
    /\ UNCHANGED <<first, variant, bgpc, err, closer, span, spanStatus, lis, defers,
                   unwinding, exit, res>>

\* PaymentFailed with the error only logged: startup goes on to the
\* subscription module
PaymentFailedContinue(tr) ==
    /\ trace' = SpanError(tr) \o <<"log_fatal_payment">>
    /\ spanStatus' = SpanStatusAfterError
    /\ pc' = "subscription"
    /\ UNCHANGED <<exit, unwinding>>

\* the body of `if err != nil` after app.NewPayment.
\* A: panic(err), main starts running its deferred calls.
\* B: span.RecordError, span.SetStatus, logger.Fatal.
PaymentFailed(tr) ==
    IF variant = "A"
    THEN /\ trace' = Append(tr, "panic")
         /\ unwinding' = "panic"
         /\ pc' = "unwind"
         /\ UNCHANGED <<spanStatus, exit>>
    ELSE /\ trace' = SpanError(tr) \o <<"log_fatal_payment">>
         /\ spanStatus' = SpanStatusAfterError
         /\ exit' = "fatal"
         /\ pc' = pc
         /\ UNCHANGED unwinding

\* a, err := app.NewPayment(&c.Payments) (a and err are new variables of the
\* block); if err != nil {...}; a.RegisterRoutes(mux); defer func() {...}()
RegisterPayment ==
    /\ exit = "running" /\ pc = "payment"
    /\ \E r \in Outcomes :
          /\ res' = [res EXCEPT !.payment = r]
          /\ IF r = "failed"
             THEN /\ PaymentFailed(Append(trace, "new_payment"))
                  /\ UNCHANGED defers
             ELSE /\ trace' = trace \o <<"new_payment", "reg_payment", "defer_shutdown">>
                  /\ defers' = Append(defers, "shutdown")
                  /\ pc' = "subscription"
                  /\ UNCHANGED <<spanStatus, exit, unwinding>>
    /\ UNCHANGED <<first, variant, bgpc, err, closer, span, lis>>

\* RegisterSubscription with a.RegisterRoutes(mux) called a second time
RegisterSubscriptionTwice ==
    /\ exit = "running" /\ pc = "subscription"
    /\ trace' = trace \o <<"new_subscription", "reg_subscription", "reg_subscription">>
    /\ pc' = "go"
    /\ UNCHANGED <<first, variant, bgpc, err, closer, span, spanStatus, lis, defers,
                   unwinding, exit, res>>

\* a := app.NewSubscription(&c.Subscriptions); a.RegisterRoutes(mux)
RegisterSubscription ==
    /\ exit = "running" /\ pc = "subscription"
    /\ trace' = trace \o <<"new_subscription", "reg_subscription">>
    /\ pc' = "go"
    /\ UNCHANGED <<first, variant, bgpc, err, closer, span, spanStatus, lis, defers,
                   unwinding, exit, res>>

\* GoServe with the go statement placed ahead of the subscription block:
\* the background unit is launched while a module is still to register
GoServeEarly ==
    /\ exit = "running" /\ pc = "subscription" /\ bgpc = "none"
    /\ bgpc' = "start"
    /\ trace' = Append(trace, "go")
    /\ UNCHANGED <<first, variant, pc, err, closer, span, spanStatus, lis, defers,
                   unwinding, exit, res>>

\* go func() {...}(): the background unit exists and may run from now on
GoServe ==
    /\ exit = "running" /\ pc = "go"
    /\ bgpc' = "start"
    /\ trace' = Append(trace, "go")
    /\ pc' = IF variant = "B" THEN "spanend" ELSE "http"
    /\ UNCHANGED <<first, variant, err, closer, span, spanStatus, lis, defers,
                   unwinding, exit, res>>

\* span.End()
SpanEnd ==
    /\ exit = "running" /\ pc = "spanend" /\ variant = "B"
    /\ span' = "ended"
    /\ trace' = Append(trace, "span_end")
    /\ pc' = "http"
    /\ UNCHANGED <<first, variant, bgpc, err, closer, spanStatus, lis, defers,
                   unwinding, exit, res>>

\* first half of http.ListenAndServe(c.Server.Endpoint.HTTP, mux): it binds
\* the text-transport listener; on failure the call returns that error,
\* which is assigned to err.
HTTPListen ==
    /\ exit = "running" /\ pc = "http"
    /\ \E r \in Outcomes :
          /\ res' = [res EXCEPT !.httpListen = r]
          /\ IF r = "failed"
             THEN /\ err' = "httpListenErr"
                  /\ trace' = Append(trace, "http_bind")
                  /\ pc' = "httptest"
             ELSE /\ trace' = trace \o <<"http_bind", "serve_text_start">>
                  /\ pc' = "httpserving"
                  /\ UNCHANGED err
    /\ UNCHANGED <<first, variant, bgpc, closer, span, spanStatus, lis, defers,
                   unwinding, exit>>

\* second half of err = http.ListenAndServe(...): the serving loop ends and
\* its error (never nil) is assigned to err.
HTTPServeReturn ==
    /\ exit = "running" /\ pc = "httpserving"
    /\ \E r \in {"ErrServerClosed", "httpErr"} :
          /\ res' = [res EXCEPT !.http = r]
          /\ err' = r
    /\ trace' = Append(trace, "serve_text_end")
    /\ pc' = "httptest"
    /\ UNCHANGED <<first, variant, bgpc, closer, span, spanStatus, lis, defers,
                   unwinding, exit>>

\* the test of err after http.ListenAndServe and what follows it.
\* A: if err != nil { logger.Fatal("Failed to serve") }
\* B: if err != nil && err != http.ErrServerClosed { logger.Error(...) }
\* then logger.Info("Stopping ...") and main returns.
HTTPTest ==
    /\ exit = "running" /\ pc = "httptest"
    /\ IF variant = "A"
       THEN IF err # "nil"
            THEN /\ trace' = Append(trace, "log_fatal_serve")
                 /\ exit' = "fatal"
                 /\ UNCHANGED <<pc, unwinding>>
            ELSE /\ trace' = Append(trace, "log_info_stop")
                 /\ pc' = "unwind"
                 /\ unwinding' = "return"
                 /\ UNCHANGED exit
       ELSE /\ trace' = trace
                 \o (IF err # "nil" /\ err # "ErrServerClosed"
                     THEN <<"log_error_serve">> ELSE <<>>)
                 \o <<"log_info_stop">>
            /\ pc' = "unwind"
            /\ unwinding' = "return"
            /\ UNCHANGED exit
    /\ UNCHANGED <<first, variant, bgpc, err, closer, span, spanStatus, lis, defers, res>>

\* the body of `if err != nil` in the deferred closure of variant B:
\* span.RecordError, span.SetStatus, logger.Fatal
ShutdownFailed(tr) ==
    /\ trace' = SpanError(tr) \o <<"log_fatal_shutdown">>
    /\ spanStatus' = SpanStatusAfterError
    /\ exit' = "fatal"
    /\ UNCHANGED defers

\* the deferred closure registered after payment's routes.
\* A: _ = a.Shutdown()
\* B: err = a.Shutdown() (the err of the payment block); if err != nil {...}
DeferredShutdown ==
    /\ exit = "running" /\ pc = "unwind"
    /\ defers # <<>> /\ defers[Len(defers)] = "shutdown"
    /\ \E r \in Outcomes :
          /\ res' = [res EXCEPT !.shutdown = r]
          /\ IF variant = "B" /\ r = "failed"
             THEN ShutdownFailed(Append(trace, "shutdown_payment"))
             ELSE /\ trace' = Append(trace, "shutdown_payment")
                  /\ defers' = SubSeq(defers, 1, Len(defers) - 1)
                  /\ UNCHANGED <<spanStatus, exit>>
    /\ UNCHANGED <<first, variant, pc, bgpc, err, closer, span, lis, unwinding>>

\* defer closer(context.Background()): the telemetry teardown
DeferredCloser ==
    /\ exit = "running" /\ pc = "unwind"
    /\ defers # <<>> /\ defers[Len(defers)] = "closer"
    /\ closer = "fn"
    /\ trace' = Append(trace, "teardown")
    /\ defers' = SubSeq(defers, 1, Len(defers) - 1)
    /\ UNCHANGED <<first, variant, pc, bgpc, err, closer, span, spanStatus, lis,
                   unwinding, exit, res>>

\* main has run all its deferred calls: the process ends, by a normal
\* return or with the panic that started the unwinding
MainExit ==
    /\ exit = "running" /\ pc = "unwind" /\ defers = <<>>
    /\ exit' = IF unwinding = "panic" THEN "panicked" ELSE "returned"
    /\ UNCHANGED <<first, variant, pc, bgpc, err, closer, span, spanStatus, lis,
                   defers, unwinding, res, trace>>

\* the background unit calls grpcServer.Serve(lis)
BgServe ==
    /\ exit = "running" /\ bgpc = "start"
    /\ bgpc' = "serving"
    /\ trace' = Append(trace, "serve_bin_start")
    /\ UNCHANGED <<first, variant, pc, err, closer, span, spanStatus, lis, defers,
                   unwinding, exit, res>>

\* err = grpcServer.Serve(lis): nothing calls Stop, so Serve returns only
\* with an error, which is assigned to the err of main's outer scope
BgServeReturn ==
    /\ exit = "running" /\ bgpc = "serving"
    /\ res' = [res EXCEPT !.grpc = "failed"]
    /\ err' = "grpcErr"
    /\ trace' = Append(trace, "serve_bin_end")
    /\ bgpc' = "test"
    /\ UNCHANGED <<first, variant, pc, closer, span, spanStatus, lis, defers,
                   unwinding, exit>>

\* if err != nil { (B: span.RecordError, span.SetStatus) logger.Fatal }
BgTest ==
    /\ exit = "running" /\ bgpc = "test"
    /\ IF err # "nil"
       THEN /\ trace' = SpanError(trace) \o <<"log_fatal_server">>
            /\ spanStatus' = SpanStatusAfterError
            /\ exit' = "fatal"
            /\ UNCHANGED bgpc
       ELSE /\ bgpc' = "done"
            /\ UNCHANGED <<trace, spanStatus, exit>>
    /\ UNCHANGED <<first, variant, pc, err, closer, span, lis, defers, unwinding, res>>

Next ==
    \/ TelemetrySetup
    \/ StartSpan
    \/ LoadConfig
    \/ Listen
    \/ RegisterUser
    \/ RegisterPlan
    \/ RegisterPayment
    \/ RegisterSubscription
    \/ GoServe
    \/ SpanEnd
    \/ HTTPListen
    \/ HTTPServeReturn
    \/ HTTPTest
    \/ DeferredShutdown
    \/ DeferredCloser
    \/ MainExit
    \/ BgServe
    \/ BgServeReturn
    \/ BgTest

Spec == Init /\ [][Next]_vars

\* ---- the two variants side by side -------------------------------------

\* the events the variants are compared on
LifecycleEvents == {"setup", "load", "bind", "serve_text_start",
                    "serve_bin_start", "shutdown_payment", "teardown"}
                   \cup {"reg_user", "reg_plan", "reg_payment", "reg_subscription"}

IsLifecycle(e) == e \in LifecycleEvents

\* the lifecycle events of startup, before any serving loop
StartupEvents == {"setup", "load", "bind", "reg_user", "reg_plan",
                  "reg_payment", "reg_subscription"}

IsStartup(e) == e \in StartupEvents

\* a run of main.go (variant A) has ended: put its lifecycle events, its
\* exit and the outcomes its collaborators gave on record, and run
\* part_000 (variant B) from the start
RunOtherVariant ==
    /\ exit # "running" /\ variant = "A" /\ ~first.done
    /\ first' = [done |-> TRUE, life |-> SelectSeq(trace, IsLifecycle),
                 exit |-> exit, res |-> res]
    /\ variant' = "B"
    /\ pc' = "setup"
    /\ bgpc' = "none"
    /\ err' = "nil"
    /\ closer' = "unset"
    /\ span' = "none"
    /\ spanStatus' = "Unset"
    /\ lis' = "none"
    /\ defers' = <<>>
    /\ unwinding' = "no"
    /\ exit' = "running"
    /\ res' = NoResults
    /\ trace' = <<>>

InitPair == Init /\ variant = "A"

NextPair == Next \/ RunOtherVariant

\* a run of variant A followed by a run of variant B
SpecPair == InitPair /\ [][NextPair]_vars

\* ---- vocabulary of the properties --------------------------------------

ModuleEvents == {"new_user", "reg_user", "new_plan", "reg_plan",
                 "new_payment", "reg_payment", "new_subscription",
                 "reg_subscription", "defer_shutdown"}

ServeStarts == {"serve_text_start", "serve_bin_start"}

HasAny(tr, S) == \E i \in DOMAIN tr : tr[i] \in S

\* teardown is the last cleanup action of tr
TeardownLast(tr) ==
    \A i \in DOMAIN tr : tr[i] \in Cleanups =>
        \E j \in DOMAIN tr : j >= i /\ tr[j] = "teardown"

Ended == exit # "running"

\* a failure, other than that of telemetry setup, that the error taxonomy
\* makes fatal
OtherFatalCause ==
    \/ res.load = "failed"
    \/ res.listen = "failed"
    \/ res.payment = "failed"
    \/ res.httpListen = "failed"
    \/ res.http = "httpErr"
    \/ res.grpc = "failed"

\* ---- properties --------------------------------------------------------

\* C1: whenever the process has ended, by whatever exit path, the telemetry
\* teardown has been invoked exactly once and no cleanup action follows it.
C1_TeardownOnceOnEveryExit ==
    Ended => (Count(trace, "teardown") = 1 /\ TeardownLast(trace))

\* C2: whenever the process has ended after payment's shutdown operation was
\* registered, that operation has run exactly once, and it ran before the
\* telemetry teardown registered ahead of it (reverse order of registration).
C2_ShutdownOnceOnEveryUnwind ==
    (Ended /\ Has(trace, "defer_shutdown")) =>
        /\ Count(trace, "shutdown_payment") = 1
        /\ Before(trace, "shutdown_payment", "teardown")

\* C3: when payment's shutdown operation has returned an error and the
\* process has ended, telemetry teardown has run exactly once and after that
\* shutdown operation; teardown never precedes a registered shutdown.
C3_TeardownAfterFailedShutdown ==
    /\ (Ended /\ res.shutdown = "failed") =>
          /\ Count(trace, "teardown") = 1
          /\ Before(trace, "shutdown_payment", "teardown")
    /\ (Has(trace, "teardown") /\ Has(trace, "defer_shutdown")) =>
          /\ Has(trace, "shutdown_payment")
          /\ Before(trace, "shutdown_payment", "teardown")

\* C4: a failed telemetry setup is reported on the console and is never by
\* itself the cause of a fatal exit: a fatal exit after it has another
\* fatal cause.
C4_SetupErrorNotFatal ==
    (res.setup = "failed") =>
        /\ Has(trace, "console")
        /\ (exit = "fatal" => OtherFatalCause)

\* C5: once loading the configuration has failed, the process has taken a
\* fatal exit reported as a configuration failure, with no listener bound,
\* no module constructed or registered and no serving loop started.
C5_ConfigErrorAborts ==
    (res.load = "failed") =>
        /\ exit = "fatal"
        /\ Has(trace, "log_fatal_config")
        /\ lis = "none"
        /\ ~HasAny(trace, ModuleEvents)
        /\ ~HasAny(trace, ServeStarts)

\* C6: when the bind of either transport's listener has failed, no serving
\* loop has been started; in particular the binary-transport serving loop
\* is not running when the text-transport bind fails.
C6_BindFailureBeforeAnyServing ==
    (res.listen = "failed" \/ res.httpListen = "failed") =>
        ~HasAny(trace, ServeStarts)

\* C7: once binding the binary-transport listener has failed, the process
\* has taken a fatal exit there: no serving loop was started, no module was
\* constructed or registered, and no module shutdown operation has run.
C7_BinaryBindFailureIsFatal ==
    (res.listen = "failed") =>
        /\ exit = "fatal"
        /\ Has(trace, "log_fatal_listen")
        /\ bgpc = "none"
        /\ ~HasAny(trace, ServeStarts)
        /\ ~HasAny(trace, ModuleEvents)
        /\ ~Has(trace, "shutdown_payment")

\* the binary bind has failed and the process has ended
C7_Witness ==
    /\ res.listen = "failed"
    /\ exit = "fatal"
    /\ trace[Len(trace)] = "log_fatal_listen"

\* C8: when the text-transport serving call has returned the listener-closed
\* error, no fatal or error entry is logged for it, and a process that has
\* ended did so by main returning, after payment shutdown then teardown,
\* unless the background unit's serving loop failed.
C8_CleanStopNonFatal ==
    (res.http = "ErrServerClosed") =>
        /\ ~Has(trace, "log_fatal_serve")
        /\ ~Has(trace, "log_error_serve")
        /\ (Ended /\ res.grpc # "failed") =>
              /\ exit = "returned"
              /\ Has(trace, "shutdown_payment")
              /\ Has(trace, "teardown")
              /\ Before(trace, "shutdown_payment", "teardown")

\* C9: when a serving loop has ended with an error other than the
\* clean-shutdown signal, the unit that ran it does not go on past its test
\* without a fatal entry for it, and no serving loop is started twice.
C9_ServeErrorIsFatal ==
    /\ (res.http = "httpErr" /\ pc = "unwind") => Has(trace, "log_fatal_serve")
    /\ (res.grpc = "failed" /\ bgpc = "done") => Has(trace, "log_fatal_server")
    /\ Count(trace, "serve_text_start") <= 1
    /\ Count(trace, "serve_bin_start") <= 1

\* C10: a process that has taken a fatal exit (a panic on a failed module
\* construction included) has recorded an error on the span while the span
\* was open and has written a log entry at fatal severity.
C10_FatalExitTelemetry ==
    (exit = "fatal" \/ (exit = "panicked" /\ res.payment = "failed")) =>
        /\ Has(trace, "span_error")
        /\ HasFatalLog(trace)

RegEvents == {"reg_user", "reg_plan", "reg_payment", "reg_subscription"}

\* every occurrence of an event of S in tr has an occurrence of a before it
Preceded(tr, S, a) ==
    \A i \in DOMAIN tr : tr[i] \in S =>
        \E j \in DOMAIN tr : j < i /\ tr[j] = a

C12_PaymentFailureFailsFast ==
    (res.payment = "failed") =>
        /\ exit \in {"fatal", "panicked"} \/ (pc = "unwind" /\ unwinding = "panic")
        /\ ~Has(trace, "reg_payment")
        /\ ~Has(trace, "defer_shutdown")
        /\ ~Has(defers, "shutdown")
        /\ ~Has(trace, "shutdown_payment")
        /\ ~Has(trace, "new_subscription")
        /\ ~Has(trace, "reg_subscription")
        /\ bgpc = "none"
        /\ ~Has(trace, "go")
        /\ ~HasAny(trace, ServeStarts)

\* payment's construction has failed and the process has ended
C12_Witness ==
    /\ res.payment = "failed"
    /\ Has(trace, "new_payment")
    /\ Ended

\* C13: a shutdown operation that has returned an error causes no fatal
\* exit and does not keep the cleanup after it from running: unless the
\* background serving loop failed, a process that has ended has run the
\* telemetry teardown.
C13_ShutdownErrorNonEscalating ==
    (res.shutdown = "failed") =>
        /\ ~Has(trace, "log_fatal_shutdown")
        /\ (Ended /\ res.grpc # "failed") =>
              (exit = "returned" /\ Has(trace, "teardown"))

\* the order the composition root declares the modules in
RegOrder == <<"reg_user", "reg_plan", "reg_payment", "reg_subscription">>

IsReg(e) == e \in RegEvents

IsPrefix(p, q) == Len(p) <= Len(q) /\ SubSeq(q, 1, Len(p)) = p

\* C14: the routes registered so far are, in order, a prefix of user, plan,
\* payment, subscription, each registered at most once and before the
\* background unit is launched; a shutdown operation is queued at most once
\* and only right after payment's routes were registered.
C14_FixedRegistrationOrder ==
    /\ IsPrefix(SelectSeq(trace, IsReg), RegOrder)
    /\ \A r \in RegEvents : Count(trace, r) <= 1 /\ Before(trace, r, "go")
    /\ (pc \in {"user", "plan", "payment", "subscription"}) => bgpc = "none"
    /\ Count(trace, "defer_shutdown") <= 1
    /\ Count(defers, "shutdown") <= 1
    /\ \A i \in DOMAIN trace : trace[i] = "defer_shutdown" =>
          (i > 1 /\ trace[i - 1] = "reg_payment")
    /\ Has(defers, "shutdown") => Has(trace, "reg_payment")

\* all four modules have registered and payment's shutdown is queued
C14_Witness ==
    /\ SelectSeq(trace, IsReg) = RegOrder
    /\ Has(trace, "defer_shutdown")

\* the error value the call http.ListenAndServe returned to main
HTTPReturned ==
    IF res.httpListen = "failed" THEN "httpListenErr" ELSE res.http

\* C15: whenever the main unit is about to test err after the
\* text-transport serving call, err holds the value that call returned: no
\* assignment by the background unit has landed in between.
C15_TestedErrIsReturned ==
    (exit = "running" /\ pc = "httptest") => err = HTTPReturned

\* C16: no RecordError or SetStatus is made on the "main" span after
\* span.End().
C16_NoSpanWriteAfterEnd ==
    ~Has(trace, "span_error_after_end")

\* the collaborators answered two runs alike: every call made in both runs
\* had the same outcome
SameOutcomes(r1, r2) ==
    \A f \in DOMAIN r1 : r1[f] = "none" \/ r2[f] = "none" \/ r1[f] = r2[f]

\* a run of each variant has ended, the collaborators answering alike
BothEnded == first.done /\ Ended /\ SameOutcomes(first.res, res)

====
